---- MODULE Spec2Model ----
(***************************************************************************)
(* Model of src/index.ts of dtslint-runner:                                *)
(*   - runWithListeningChildProcesses: the pool of forked workers that are *)
(*     fed one task at a time over the IPC channel;                        *)
(*   - nAtATime / initArray: n async lanes sharing one cursor.             *)
(* The event loop is single threaded: every handler is one atomic action.  *)
(* The workers are separate OS processes and move on their own.            *)
(***************************************************************************)
EXTENDS Integers, Sequences, FiniteSets, TLC

\* ---------------------------------------------------------------- bounds
MaxTasks == 3       \* longest inputs array given to the pool
MaxProcs == 2       \* largest nProcesses given to the pool
MaxErrors == 1      \* "error" events the children emit at most
MaxInputs == 3      \* longest inputs array given to nAtATime
MaxLanes == 3       \* largest n given to nAtATime
MaxPackages == 2    \* longest package list main gives to the pool

Children == 1..MaxProcs
Undefined == "undefined"   \* what inputs[k] is in JavaScript for k out of range

\* ---------------------------------------------------------------- state
VARIABLES
    \* runWithListeningChildProcesses: arguments
    inputs,         \* the task list (tasks are told apart by their position)
    nProcesses,
    \* runWithListeningChildProcesses: locals of the promise executor
    i,              \* counter of the spawn loop
    inputIndex,
    processesLeft,
    rejected,
    allChildren,    \* sequence of the ids of the forked children
    promise,        \* "pending" | "resolved" | "rejected"
    \* observation of the calls the pool makes
    outputs,        \* arguments of the handleOutput calls, in order
    sent,           \* <<child, task>> of the child.send calls, in order
    resolveCalls,   \* number of resolve() calls
    failCalls,      \* number of runs of fail()
    assertFailed,   \* the assert of the close handler has failed
    \* the children, as the operating system and node see them
    proc,           \* "none" | "running" | "dead"
    inbox,          \* tasks the worker has received and not answered
    outbox,         \* messages of the worker not yet handled by the pool
    killed,         \* child.kill() has been called
    crashed,        \* the worker exited without having been killed
    ev,             \* "none" | "disconnected" | "closed": exit events handled
    errs,           \* number of "error" events the children have emitted
    \* main
    statusOf,       \* the status the worker reports for each task
    allFailures,    \* <<path, status>> of the outcomes that are not "OK"
    exitCode,       \* <<>>, or <<code>> once process.exit(code) was called
    \* nAtATime
    n,              \* number of lanes asked for
    natInputs,      \* the inputs array
    use,            \* the operation: input -> output, or "fail"
    arrI,           \* counter of initArray's loop
    nextIndex,
    results,        \* the results array (Undefined = empty slot)
    lanes,          \* per lane: pc, index, output
    pending,        \* indices whose use() call has started and not settled
    calls,          \* indices use() was called on, in order
    natStatus       \* "running" | "returned" | "failed"

poolVars == <<inputs, nProcesses, i, inputIndex, processesLeft, rejected,
              allChildren, promise, outputs, sent, resolveCalls, failCalls,
              assertFailed, proc, inbox, outbox, killed, crashed, ev, errs,
              statusOf, allFailures, exitCode>>
natVars == <<n, natInputs, use, arrI, nextIndex, results, lanes, pending,
             calls, natStatus>>
vars == <<poolVars, natVars>>

\* ------------------------------------------------ runWithListeningChildProcesses
InputAt_preIncrement(k) ==
    IF k + 2 \in 1..Len(inputs) THEN inputs[k + 2] ELSE Undefined
\* inputs[k], for the zero-based k of the code.
InputAt(k) == IF k + 1 \in 1..Len(inputs) THEN inputs[k + 1] ELSE Undefined

Advance_forgot == UNCHANGED inputIndex
\* Lines 230 and 242: inputIndex++.
Advance == inputIndex' = inputIndex + 1

Forked(c) == c \in 1..Len(allChildren)
LoopDone == i >= nProcesses

\* resolve() and reject() of a promise: only the first call settles it.
Resolved(p) == IF p = "pending" THEN "resolved" ELSE p
Rejected(p) == IF p = "pending" THEN "rejected" ELSE p

PoolIdle ==
    /\ inputs = <<>> /\ nProcesses = 0 /\ i = 0 /\ inputIndex = 0
    /\ processesLeft = 0 /\ rejected = FALSE /\ allChildren = <<>>
    /\ promise = "pending" /\ outputs = <<>> /\ sent = <<>>
    /\ resolveCalls = 0 /\ failCalls = 0 /\ assertFailed = FALSE
    /\ proc = [c \in Children |-> "none"]
    /\ inbox = [c \in Children |-> <<>>]
    /\ outbox = [c \in Children |-> <<>>]
    /\ killed = [c \in Children |-> FALSE]
    /\ crashed = [c \in Children |-> FALSE]
    /\ ev = [c \in Children |-> "none"]
    /\ errs = 0
    /\ statusOf = <<>> /\ allFailures = <<>> /\ exitCode = <<>>

NatIdle ==
    /\ n = 0 /\ natInputs = <<>> /\ use = <<>> /\ arrI = 0 /\ nextIndex = 0
    /\ results = <<>> /\ lanes = <<>> /\ pending = {} /\ calls = <<>>
    /\ natStatus = "running"

\* Line 76: the status of an outcome is "OK" or the text of the failure.
Statuses == {"OK", "error TS"}

\* Lines 67 and 216-220: allFailures of main and the locals of the pool before
\* the spawn loop, for len tasks that the workers will report the statuses st.
PoolStart(len, st) ==
    /\ inputs = [k \in 1..len |-> k]
    /\ nProcesses \in 1..MaxProcs
    /\ i = 0
    /\ inputIndex = 0
    /\ processesLeft = nProcesses
    /\ rejected = FALSE
    /\ allChildren = <<>>
    /\ promise = "pending"
    /\ outputs = <<>> /\ sent = <<>>
    /\ resolveCalls = 0 /\ failCalls = 0 /\ assertFailed = FALSE
    /\ proc = [c \in Children |-> "none"]
    /\ inbox = [c \in Children |-> <<>>]
    /\ outbox = [c \in Children |-> <<>>]
    /\ killed = [c \in Children |-> FALSE]
    /\ crashed = [c \in Children |-> FALSE]
    /\ ev = [c \in Children |-> "none"]
    /\ errs = 0
    /\ statusOf = st
    /\ allFailures = <<>>
    /\ exitCode = <<>>
    /\ NatIdle

\* The pool on its own: what the outcomes say is of no concern to it.
Init == \E len \in 0..MaxTasks : PoolStart(len, [k \in 1..len |-> "OK"])

\* The pool as main runs it: every package passes or fails.
MainInit ==
    \E len \in 0..MaxPackages : \E st \in [1..len -> Statuses] : PoolStart(len, st)

\* Lines 221-231: one iteration of the spawn loop (the handlers it registers
\* are the actions OnMessage, OnDisconnect, OnClose and OnError).
NoTaskLeft_never == FALSE
\* Line 222: the test of the spawn loop.
NoTaskLeft == inputIndex = Len(inputs)

SkipProcess_forgot == UNCHANGED processesLeft
\* Lines 223-224: an iteration that finds no task left.
SkipProcess == processesLeft' = processesLeft - 1

SpawnStep ==
    /\ i < nProcesses
    /\ i' = i + 1
    /\ IF NoTaskLeft
       THEN /\ SkipProcess
            /\ UNCHANGED <<allChildren, proc, inbox, sent, inputIndex>>
       ELSE LET child == Len(allChildren) + 1 IN
            /\ allChildren' = Append(allChildren, child)
            /\ proc' = [proc EXCEPT ![child] = "running"]
            /\ inbox' = [inbox EXCEPT ![child] = Append(@, InputAt(inputIndex))]
            /\ sent' = Append(sent, <<child, InputAt(inputIndex)>>)
            /\ Advance
            /\ UNCHANGED processesLeft
    /\ UNCHANGED <<inputs, nProcesses, rejected, promise, outputs, resolveCalls,
                   failCalls, assertFailed, outbox, killed, crashed, ev, errs>>
    /\ UNCHANGED <<statusOf, allFailures, exitCode>>
    /\ UNCHANGED natVars

OneLess_none(left) == left
\* Line 235: processesLeft--.
OneLess(left) == left - 1

LastProcess_early(left) == left = 1
\* Line 236: the test that guards resolve().
LastProcess(left) == left = 0

SendTo_last(c) == Len(allChildren)
\* Line 241: the child the handler of child c sends the next task to (the
\* const child of the loop iteration that registered the handler).
SendTo(c) == c

KillChild_forgot(c) == UNCHANGED killed
\* Line 239: child.kill() in the handler of child c.
KillChild(c) == killed' = [killed EXCEPT ![c] = TRUE]

\* What statusOf holds for a path; a message that names no task has none.
StatusAt(path) == IF path \in DOMAIN statusOf THEN statusOf[path] ELSE Undefined

\* Lines 75-84: handleOutput as main passes it, on the outcome of task path.
HandleOutput(path) ==
    /\ outputs' = Append(outputs, path)
    /\ allFailures' = IF StatusAt(path) = "OK" THEN allFailures
                      ELSE Append(allFailures, <<path, StatusAt(path)>>)

\* Lines 232-244: the "message" handler of child c.
OnMessage(c) ==
    /\ LoopDone /\ Forked(c)
    /\ ev[c] = "none"
    /\ outbox[c] # <<>>
    /\ outbox' = [outbox EXCEPT ![c] = Tail(@)]
    /\ HandleOutput(Head(outbox[c]))
    /\ IF inputIndex = Len(inputs)
       THEN /\ processesLeft' = OneLess(processesLeft)
            /\ IF LastProcess(processesLeft')
               THEN /\ promise' = Resolved(promise)
                    /\ resolveCalls' = resolveCalls + 1
               ELSE UNCHANGED <<promise, resolveCalls>>
            /\ KillChild(c)
            /\ UNCHANGED <<inbox, sent, inputIndex>>
       ELSE /\ inbox' = [inbox EXCEPT ![SendTo(c)] = Append(@, InputAt(inputIndex))]
            /\ sent' = Append(sent, <<SendTo(c), InputAt(inputIndex)>>)
            /\ Advance
            /\ UNCHANGED <<processesLeft, promise, resolveCalls, killed>>
    /\ UNCHANGED <<inputs, nProcesses, i, rejected, allChildren, failCalls,
                   assertFailed, proc, crashed, ev, errs, statusOf, exitCode>>
    /\ UNCHANGED natVars

Fail_noFlag ==
    /\ UNCHANGED rejected
    /\ killed' = [c \in Children |-> killed[c] \/ Forked(c)]
    /\ promise' = Rejected(promise)
    /\ failCalls' = failCalls + 1

\* Lines 254-260: fail().
Fail ==
    /\ rejected' = TRUE
    /\ killed' = [c \in Children |-> killed[c] \/ Forked(c)]
    /\ promise' = Rejected(promise)
    /\ failCalls' = failCalls + 1

\* Lines 245-249: the "disconnect" handler of child c. The channel closes when
\* the worker process is gone and its last messages have been read.
OnDisconnect(c) ==
    /\ LoopDone /\ Forked(c)
    /\ proc[c] = "dead" /\ outbox[c] = <<>>
    /\ ev[c] = "none"
    /\ ev' = [ev EXCEPT ![c] = "disconnected"]
    /\ IF inputIndex # Len(inputs)
       THEN Fail
       ELSE UNCHANGED <<rejected, killed, promise, failCalls>>
    /\ UNCHANGED <<inputs, nProcesses, i, inputIndex, processesLeft, allChildren,
                   outputs, sent, resolveCalls, assertFailed, proc, inbox,
                   outbox, crashed, errs>>
    /\ UNCHANGED <<statusOf, allFailures, exitCode>>
    /\ UNCHANGED natVars

\* Line 250: the "close" handler of child c.
OnClose(c) ==
    /\ LoopDone /\ Forked(c)
    /\ ev[c] = "disconnected"
    /\ ev' = [ev EXCEPT ![c] = "closed"]
    /\ assertFailed' = (assertFailed \/ ~(rejected \/ inputIndex = Len(inputs)))
    /\ UNCHANGED <<inputs, nProcesses, i, inputIndex, processesLeft, rejected,
                   allChildren, promise, outputs, sent, resolveCalls, failCalls,
                   proc, inbox, outbox, killed, crashed, errs>>
    /\ UNCHANGED <<statusOf, allFailures, exitCode>>
    /\ UNCHANGED natVars

\* Line 251: the "error" handler of child c is fail itself. Node emits "error"
\* when the process could not be spawned or killed or a send failed.
OnError(c) ==
    /\ LoopDone /\ Forked(c)
    /\ errs < MaxErrors
    /\ errs' = errs + 1
    /\ Fail
    /\ UNCHANGED <<inputs, nProcesses, i, inputIndex, processesLeft, allChildren,
                   outputs, sent, resolveCalls, assertFailed, proc, inbox,
                   outbox, crashed, ev>>
    /\ UNCHANGED <<statusOf, allFailures, exitCode>>
    /\ UNCHANGED natVars

\* The worker (dtslint --listen) answers the task it is working on with one
\* message.
WorkerReply(c) ==
    /\ proc[c] = "running"
    /\ inbox[c] # <<>>
    /\ inbox' = [inbox EXCEPT ![c] = Tail(@)]
    /\ outbox' = [outbox EXCEPT ![c] = Append(@, Head(inbox[c]))]
    /\ UNCHANGED <<inputs, nProcesses, i, inputIndex, processesLeft, rejected,
                   allChildren, promise, outputs, sent, resolveCalls, failCalls,
                   assertFailed, proc, killed, crashed, ev, errs>>
    /\ UNCHANGED <<statusOf, allFailures, exitCode>>
    /\ UNCHANGED natVars

\* The signal of child.kill() ends the worker process.
WorkerExit(c) ==
    /\ proc[c] = "running" /\ killed[c]
    /\ proc' = [proc EXCEPT ![c] = "dead"]
    /\ UNCHANGED <<inputs, nProcesses, i, inputIndex, processesLeft, rejected,
                   allChildren, promise, outputs, sent, resolveCalls, failCalls,
                   assertFailed, inbox, outbox, killed, crashed, ev, errs>>
    /\ UNCHANGED <<statusOf, allFailures, exitCode>>
    /\ UNCHANGED natVars

\* The worker process ends on its own (crash, exit) before it was killed.
WorkerCrash(c) ==
    /\ proc[c] = "running" /\ ~killed[c]
    /\ proc' = [proc EXCEPT ![c] = "dead"]
    /\ crashed' = [crashed EXCEPT ![c] = TRUE]
    /\ UNCHANGED <<inputs, nProcesses, i, inputIndex, processesLeft, rejected,
                   allChildren, promise, outputs, sent, resolveCalls, failCalls,
                   assertFailed, inbox, outbox, killed, ev, errs>>
    /\ UNCHANGED <<statusOf, allFailures, exitCode>>
    /\ UNCHANGED natVars

ReturnCode_inverted == IF Len(allFailures) = 0 THEN 1 ELSE 0
\* Lines 87-99: what main returns once the pool's promise is resolved.
ReturnCode == IF Len(allFailures) = 0 THEN 0 ELSE 1

\* Lines 85-99 and 36-41: the pool's promise is resolved, main returns and
\* the entry exits with the code returned.
MainReturn ==
    /\ promise = "resolved"
    /\ exitCode = <<>>
    /\ exitCode' = <<ReturnCode>>
    /\ UNCHANGED <<inputs, nProcesses, i, inputIndex, processesLeft, rejected,
                   allChildren, promise, outputs, sent, resolveCalls, failCalls,
                   assertFailed, proc, inbox, outbox, killed, crashed, ev, errs,
                   statusOf, allFailures>>
    /\ UNCHANGED natVars

\* Lines 69 and 42-45: the pool's promise is rejected, the await in main
\* throws and the entry exits with code 1.
MainCatch ==
    /\ promise = "rejected"
    /\ exitCode = <<>>
    /\ exitCode' = <<1>>
    /\ UNCHANGED <<inputs, nProcesses, i, inputIndex, processesLeft, rejected,
                   allChildren, promise, outputs, sent, resolveCalls, failCalls,
                   assertFailed, proc, inbox, outbox, killed, crashed, ev, errs,
                   statusOf, allFailures>>
    /\ UNCHANGED natVars

Next ==
    \/ SpawnStep
    \/ \E c \in Children : OnMessage(c)
    \/ \E c \in Children : OnDisconnect(c)
    \/ \E c \in Children : OnClose(c)
    \/ \E c \in Children : OnError(c)
    \/ \E c \in Children : WorkerReply(c)
    \/ \E c \in Children : WorkerExit(c)
    \/ \E c \in Children : WorkerCrash(c)

Spec == Init /\ [][Next]_vars

\* The worker replies and the handlers of the event loop are not starved.
FairSpec ==
    /\ Spec
    /\ WF_vars(SpawnStep)
    /\ \A c \in Children : WF_vars(WorkerReply(c)) /\ WF_vars(OnMessage(c))

\* main around the pool: process.exit ends the event loop, so no handler runs
\* once it was called.
Alive == exitCode = <<>>

MainNext ==
    \/ Alive /\ SpawnStep
    \/ \E c \in Children : Alive /\ OnMessage(c)
    \/ \E c \in Children : Alive /\ OnDisconnect(c)
    \/ \E c \in Children : Alive /\ OnClose(c)
    \/ \E c \in Children : Alive /\ OnError(c)
    \/ \E c \in Children : Alive /\ WorkerReply(c)
    \/ \E c \in Children : Alive /\ WorkerExit(c)
    \/ \E c \in Children : Alive /\ WorkerCrash(c)
    \/ MainReturn
    \/ MainCatch

MainSpec == MainInit /\ [][MainNext]_vars

\* ------------------------------------------------------- properties: the pool
Min(a, b) == IF a < b THEN a ELSE b
Tasks == 1..Len(inputs)
Delivered(t) == {k \in 1..Len(outputs) : outputs[k] = t}
SentTo(c) == {k \in 1..Len(sent) : sent[k][1] = c}
\* A worker ended on its own or a child emitted "error".
Fault == errs > 0 \/ \E c \in Children : crashed[c]

\* C1: when the promise is resolved, handleOutput has been called exactly
\* once for every task of inputs, and for nothing else.
C1_OneOutcomePerTask ==
    promise = "resolved" =>
        /\ Len(outputs) = Len(inputs)
        /\ \A t \in Tasks : Cardinality(Delivered(t)) = 1

C1_Witness ==
    /\ promise = "resolved"
    /\ Len(inputs) = 3 /\ Len(allChildren) = 2
    /\ outputs # inputs

\* C2: with at least one task, under fair scheduling, the promise is
\* eventually resolved unless a worker crashed or a child emitted "error".
C2_EventuallyResolved ==
    (Len(inputs) >= 1 /\ nProcesses >= 1) ~> (promise = "resolved" \/ Fault)

C2_Witness ==
    /\ promise = "resolved" /\ ~Fault
    /\ Len(inputs) >= 3 /\ nProcesses >= 2
    /\ \A c \in Children : Forked(c) => ev[c] = "closed"

\* C3: once the spawn loop is over, processesLeft = 0 without an abort means
\* that the promise is resolved.
C3_ZeroLeftIsResolved ==
    (LoopDone /\ processesLeft = 0 /\ ~rejected) => promise = "resolved"

\* C4: a disconnect handled for a child the pool has not killed runs fail()
\* and leaves the promise rejected.
C4_UnexpectedDisconnectAborts ==
    [][\A c \in Children :
         (ev[c] = "none" /\ ev'[c] = "disconnected" /\ ~killed[c])
            => (failCalls' = failCalls + 1 /\ promise' = "rejected")]_vars

\* C5: fail() runs at most once in one invocation.
C5_SingleFireAbort == failCalls <= 1

\* C6: once rejected is set, handleOutput is not called and no task is sent.
C6_NothingAfterAbort ==
    [][rejected => (outputs' = outputs /\ sent' = sent)]_vars

\* C7: every child has at most one task that was sent to it and whose
\* outcome has not been passed to handleOutput, so a send to a child follows
\* the delivery of the outcome of its previous task.
C7_OneTaskInFlight ==
    \A c \in Children :
        Cardinality({k \in SentTo(c) : Delivered(sent[k][2]) = {}}) <= 1

C7_Witness ==
    \E c \in Children :
        /\ Cardinality(SentTo(c)) >= 2
        /\ Cardinality({k \in SentTo(c) : Delivered(sent[k][2]) = {}}) = 1

\* C10: the spawn loop forks min(nProcesses, inputs.length) children, every
\* forked child was sent a task of inputs, and when the loop ends
\* processesLeft is the number of forked children.
C10_WorkerCount ==
    /\ \A c \in Children : Forked(c) =>
          \E k \in SentTo(c) : sent[k][2] \in Tasks
    /\ Len(allChildren) <= Min(nProcesses, Len(inputs))
    /\ LoopDone => Len(allChildren) = Min(nProcesses, Len(inputs))
    /\ (LoopDone /\ outputs = <<>>) => processesLeft = Len(allChildren)

C10_Witness ==
    /\ LoopDone /\ outputs = <<>>
    /\ nProcesses > Len(inputs) /\ Len(inputs) >= 1
    /\ processesLeft = Len(inputs)

\* C12: the assert of the close handler never fails: whenever the close of a
\* child has been handled (after its messages and its disconnect), rejected
\* is set or the cursor is exhausted.
C12_CloseAssertHolds ==
    /\ ~assertFailed
    /\ \A c \in Children :
          ev[c] = "closed" => (rejected \/ inputIndex = Len(inputs))

C12_Witness ==
    \E c \in Children :
        /\ ev[c] = "closed" /\ crashed[c]
        /\ inputIndex # Len(inputs)
        /\ errs = 0

\* C13: a run of fail() calls kill on every forked child and leaves the
\* promise rejected.
C13_AbortKillsAllAndRejects ==
    [][failCalls' > failCalls =>
         /\ \A c \in Children : Forked(c) => killed'[c]
         /\ promise' = "rejected"]_vars

\* C14: the handler of an outcome that finds the cursor exhausted kills the
\* child, a child killed with the cursor exhausted is sent nothing more, and
\* once the promise is resolved every forked child has been killed.
C14_KilledOnExhaustion ==
    /\ [](promise = "resolved" => \A c \in Children : Forked(c) => killed[c])
    /\ [][\A c \in Children :
            /\ (Len(outputs') > Len(outputs) /\ outbox'[c] # outbox[c]
                   /\ inputIndex = Len(inputs)) => killed'[c]
            /\ (killed[c] /\ inputIndex = Len(inputs)) =>
                   {k \in 1..Len(sent') : sent'[k][1] = c} = SentTo(c)]_vars

C14_Witness ==
    /\ promise = "resolved" /\ ~rejected
    /\ Len(allChildren) = 2 /\ Len(inputs) = 3
    /\ \E c \in Children : proc[c] = "running" /\ killed[c]

\* C15: the cursor stays within 0..inputs.length and never decreases, and
\* the k-th child.send of the invocation sends inputs[k-1] (zero-based), so
\* every task is sent at most once and to one child.
C15_CursorDiscipline ==
    /\ [](/\ inputIndex \in 0..Len(inputs)
          /\ Len(sent) = inputIndex
          /\ \A k \in 1..Len(sent) : sent[k][2] = inputs[k]
          /\ \A t \in Tasks : Cardinality({k \in 1..Len(sent) : sent[k][2] = t}) <= 1)
    /\ [][inputIndex' >= inputIndex]_vars

C15_Witness ==
    /\ inputIndex = Len(inputs) /\ Len(inputs) = 3
    /\ sent[1][1] # sent[2][1] /\ sent[3][1] = 2

\* C16: with nProcesses = 1 and at least one task one child is forked, the
\* sends go to it in the order of inputs, the outcomes reach handleOutput in
\* the order of inputs, and a send follows the delivery of the outcome of the
\* send before it: the trace is send, deliver, send, deliver, ...
C16_SequentialWithOneProcess ==
    (nProcesses = 1 /\ Len(inputs) >= 1) =>
        /\ Len(allChildren) <= 1
        /\ LoopDone => Len(allChildren) = 1
        /\ sent = [k \in 1..Len(sent) |-> <<1, inputs[k]>>]
        /\ outputs = [k \in 1..Len(outputs) |-> inputs[k]]
        /\ Len(sent) \in {Len(outputs), Len(outputs) + 1}
        /\ Len(sent) = Len(outputs) => Len(sent) \in {0, Len(inputs)}
        /\ promise = "resolved" => outputs = inputs

C16_Witness ==
    /\ nProcesses = 1 /\ Len(inputs) = 3
    /\ promise = "resolved" /\ outputs = inputs

\* C19: resolve() and fail() (which calls reject()) are not both called in
\* one invocation.
C19_SettleExclusive == ~(resolveCalls > 0 /\ failCalls > 0)

\* The outcome of every task sent to child c has been handled; the last of
\* them was handled with the cursor exhausted, or c would have been sent more.
Finished(c) == \A k \in SentTo(c) : Delivered(sent[k][2]) # {}

\* C20: once the spawn loop is over, processesLeft is not negative and is
\* the number of forked children whose last outcome has not been handled.
C20_ProcessesLeftCounts ==
    LoopDone =>
        /\ processesLeft >= 0
        /\ processesLeft =
              Cardinality({c \in Children : Forked(c) /\ ~Finished(c)})

C20_Witness ==
    /\ LoopDone /\ processesLeft = 1 /\ Len(allChildren) = 2
    /\ inputIndex = Len(inputs) /\ rejected

\* ------------------------------------------------------- properties: main
\* C11: the exit code is 0 only when the pool resolved and every outcome
\* passed to handleOutput was "OK"; it is 1 when the pool resolved and some
\* outcome was not "OK", and 1 when the pool rejected; and without a crash or
\* an "error" event the pool is not rejected and resolves only with every
\* task delivered, whatever the statuses.
C11_ExitStatus ==
    /\ exitCode \in {<<>>, <<0>>, <<1>>}
    /\ exitCode = <<0>> =>
          /\ promise = "resolved"
          /\ \A k \in 1..Len(outputs) : StatusAt(outputs[k]) = "OK"
    /\ (exitCode = <<1>> /\ promise = "resolved") =>
          \E k \in 1..Len(outputs) : StatusAt(outputs[k]) # "OK"
    /\ (exitCode # <<>> /\ promise = "rejected") => exitCode = <<1>>
    /\ ~Fault => promise # "rejected"
    /\ promise = "resolved" => \A t \in Tasks : Delivered(t) # {}

C11_Witness ==
    /\ exitCode = <<1>> /\ promise = "resolved"
    /\ Len(inputs) = 2
    /\ StatusAt(outputs[1]) # "OK" /\ StatusAt(outputs[2]) = "OK"

\* ------------------------------------------------------------------ nAtATime
Items == {"a", "b"}          \* what the inputs array may hold
Outputs == {"x", "y"}        \* what use() may produce
Failure == "fail"            \* use() rejects

InputSeqs == UNION {[1..len -> Items] : len \in 0..MaxInputs}

\* Lines 184-186 and 198: the locals before initArray's loop.
NatInit ==
    /\ n \in 0..MaxLanes
    /\ natInputs \in InputSeqs
    /\ use \in [Items -> Outputs \cup {Failure}]
    /\ arrI = 0
    /\ nextIndex = 0
    /\ results = [k \in 1..Len(natInputs) |-> Undefined]
    /\ lanes = <<>>
    /\ pending = {}
    /\ calls = <<>>
    /\ natStatus = "running"
    /\ PoolIdle

LaneCount_oneMore == n + 1
\* Lines 186 and 199: the length initArray is called with.
LaneCount == n

ArrayDone == arrI >= LaneCount

\* arr[l] = rec, on an array that grows when l is past its end.
Put(arr, l, rec) == [k \in DOMAIN arr \cup {l} |-> IF k = l THEN rec ELSE arr[k]]

\* Lines 187-190: lane l at the head of its while loop; it either claims the
\* next index and suspends on use(inputs[index]), or leaves the loop.
LaneLoop(l, ls) ==
    IF nextIndex # Len(natInputs)
    THEN /\ lanes' = Put(ls, l, [pc |-> "awaiting", index |-> nextIndex,
                                 output |-> Undefined])
         /\ nextIndex' = nextIndex + 1
         /\ pending' = pending \cup {nextIndex}
         /\ calls' = Append(calls, nextIndex)
    ELSE /\ lanes' = Put(ls, l, [pc |-> "done", index |-> Undefined,
                                 output |-> Undefined])
         /\ UNCHANGED <<nextIndex, pending, calls>>

\* Lines 199-201: one iteration of initArray; makeElement() runs the new
\* lane up to its first await.
MakeElement ==
    /\ arrI < LaneCount
    /\ arrI' = arrI + 1
    /\ LaneLoop(arrI + 1, lanes)
    /\ UNCHANGED <<n, natInputs, use, results, natStatus>>
    /\ UNCHANGED poolVars

\* The promise of use(inputs[index]) settles; the lane's continuation is queued.
UseSettle(l) ==
    /\ ArrayDone /\ l \in DOMAIN lanes
    /\ lanes[l].pc = "awaiting"
    /\ pending' = pending \ {lanes[l].index}
    /\ lanes' = [lanes EXCEPT ![l].pc = "resumable",
                              ![l].output = use[natInputs[lanes[l].index + 1]]]
    /\ UNCHANGED <<n, natInputs, use, arrI, nextIndex, results, calls, natStatus>>
    /\ UNCHANGED poolVars

StoreAt_cursor(l) == nextIndex - 1
\* Line 191: where lane l stores the output it has awaited.
StoreAt(l) == lanes[l].index

\* Lines 190-192 and 187: lane l resumes after its await: it throws when
\* use() rejected, else stores the output and goes round the loop.
LaneResume(l) ==
    /\ l \in DOMAIN lanes
    /\ lanes[l].pc = "resumable"
    /\ IF lanes[l].output = Failure
       THEN /\ lanes' = [lanes EXCEPT ![l].pc = "threw"]
            /\ UNCHANGED <<results, nextIndex, pending, calls>>
       ELSE /\ results' = [k \in DOMAIN results \cup {StoreAt(l) + 1} |->
                              IF k = StoreAt(l) + 1 THEN lanes[l].output
                              ELSE results[k]]
            /\ LaneLoop(l, lanes)
    /\ UNCHANGED <<n, natInputs, use, arrI, natStatus>>
    /\ UNCHANGED poolVars

\* Line 186: Promise.all rejects as soon as one lane has thrown, and the
\* await rethrows.
NatReject ==
    /\ ArrayDone
    /\ natStatus = "running"
    /\ \E l \in DOMAIN lanes : lanes[l].pc = "threw"
    /\ natStatus' = "failed"
    /\ UNCHANGED <<n, natInputs, use, arrI, nextIndex, results, lanes, pending, calls>>
    /\ UNCHANGED poolVars

AllLanesDone_any == \E l \in DOMAIN lanes : lanes[l].pc = "done"
\* Line 186: Promise.all waits for the promise of every lane.
AllLanesDone == \A l \in DOMAIN lanes : lanes[l].pc = "done"

\* Lines 186 and 194: Promise.all resolves when every lane has returned.
NatReturn ==
    /\ ArrayDone
    /\ natStatus = "running"
    /\ AllLanesDone
    /\ natStatus' = "returned"
    /\ UNCHANGED <<n, natInputs, use, arrI, nextIndex, results, lanes, pending, calls>>
    /\ UNCHANGED poolVars

NatNext ==
    \/ MakeElement
    \/ \E l \in 1..MaxLanes + 1 : UseSettle(l)
    \/ \E l \in 1..MaxLanes + 1 : LaneResume(l)
    \/ NatReject
    \/ NatReturn

NatSpec == NatInit /\ [][NatNext]_vars

\* Every use() call settles and the queued continuations run.
NatFairSpec ==
    /\ NatSpec
    /\ WF_vars(MakeElement) /\ WF_vars(NatReturn) /\ WF_vars(NatReject)
    /\ \A l \in 1..MaxLanes + 1 : WF_vars(UseSettle(l)) /\ WF_vars(LaneResume(l))

\* --------------------------------------------------- properties: nAtATime
AllSucceed == \A k \in 1..Len(natInputs) : use[natInputs[k]] # Failure

\* C8: with n >= 1 and a use() that never rejects, the array returned has the
\* length of inputs and holds use(inputs[k]) at every index k.
C8_ResultsInInputOrder ==
    (natStatus = "returned" /\ n >= 1 /\ AllSucceed) =>
        /\ DOMAIN results = DOMAIN natInputs
        /\ \A k \in DOMAIN natInputs : results[k] = use[natInputs[k]]

C8_Witness ==
    /\ natStatus = "returned" /\ n >= 2 /\ AllSucceed
    /\ Len(natInputs) = 3
    /\ results[1] # results[2]
    /\ \E l \in DOMAIN lanes : lanes[l].pc = "done" /\ l > 1

\* C9: at most n calls of use() are started and not settled.
C9_AtMostNInFlight == Cardinality(pending) <= n

C9_Witness == n >= 2 /\ Cardinality(pending) = n /\ Len(calls) > n

\* A use() call has rejected.
SomeFailure == \E l \in DOMAIN lanes : lanes[l].output = Failure

\* C17: when use() rejects for a claimed input the call does not return a
\* result array, and from the rejection on no lane calls use() again.
C17_FailureAborts ==
    /\ []((SomeFailure /\ n >= 1) => natStatus # "returned")
    /\ [][SomeFailure => calls' = calls]_vars

\* C18: with n >= 1, use() is called on the indices 0, 1, 2, ... in turn, on
\* none twice, nextIndex stays within 0..inputs.length, the call returns only
\* with use() called on every input and no call or continuation outstanding,
\* and when no use() rejects the call eventually returns.
C18_ClaimOnceAndComplete ==
    /\ [](n >= 1 =>
            /\ nextIndex \in 0..Len(natInputs)
            /\ calls = [k \in 1..nextIndex |-> k - 1]
            /\ natStatus = "returned" =>
                  /\ nextIndex = Len(natInputs)
                  /\ pending = {}
                  /\ \A l \in DOMAIN lanes : lanes[l].pc = "done")
    /\ (n >= 1 /\ AllSucceed) ~> (natStatus = "returned")

C18_Witness ==
    /\ natStatus = "returned" /\ n = 2 /\ Len(natInputs) = 3
    /\ Len(calls) = 3

====
